---- MODULE Spec2Model ----
(***************************************************************************)
(* Model of src/python/try334.py: a benchmark script that builds a luma    *)
(* plane and two 2x2-subsampled chroma planes with pyvips, upsamples the   *)
(* chroma planes with the linear kernel, joins the three planes, removes   *)
(* the 16/128/128 level shift and applies the YCbCr -> RGB matrix.         *)
(*                                                                         *)
(* An image is a record                                                    *)
(*   [w, h, bands, format, interpretation, px]                             *)
(* with px a function from <<x, y>> to the sequence of band values.        *)
(* "uchar" samples are integers 0..255; "float" samples are held in units  *)
(* of 1/FloatScale so that the six-decimal matrix of the script is exact.  *)
(***************************************************************************)
EXTENDS Integers, Sequences, FiniteSets, TLC

VARIABLES
    argc,      \* len(sys.argv)
    argv,      \* <<WIDTH, HEIGHT>> as given on the command line
    pc,        \* position of the script
    width,     \* module-level width  (line 11)
    height,    \* module-level height (line 12)
    Y,         \* module-level planes (lines 21-23); NoImage before creation
    Cb,
    Cr,
    callIdx,   \* which bench(...) statement of lines 46-47 is next
    frame,     \* local names of the running try2/try3 call
    calls,     \* functions invoked by bench, in order
    results,   \* value of bench's local `result`, one per finished call
    output,    \* lines printed
    err        \* the uncaught exception, "" while there is none

vars == <<argc, argv, pc, width, height, Y, Cb, Cr, callIdx, frame, calls,
          results, output, err>>

----------------------------------------------------------------------------
\* Bounds of the model.
MaxDim == 5          \* WIDTH and HEIGHT range over -1..MaxDim
MaxChroma == 2       \* chroma planes of the conversion specification: 1..MaxChroma

----------------------------------------------------------------------------
\* Module-level constants of the script.
shift == 1
subsample == 2 ^ shift

\* Fixed-point unit of "float" samples: the matrix has six decimals.
FloatScale == 1000000

ycc2rgb == << << 1000000,       0,  1402000 >>,
              << 1000000, -344136,  -714136 >>,
              << 1000000, 1772000,        0 >> >>

\* The list subtracted from the joined image on lines 30 and 36.
offsets == << 16, 128, 128 >>

\* Python's >> on integers: floor division by a power of two.
Shr(a, s) == a \div (2 ^ s)

NoImage == [w |-> 0, h |-> 0, bands |-> 0, format |-> "none",
            interpretation |-> "none", px |-> << >>]

Coords(w, h) == (0 .. (w - 1)) \X (0 .. (h - 1))

\* A faulty variant of BlackOk: an empty plane accepted.
BlackOkEmpty(w, h) == w >= 0 /\ h >= 0

\* pyvips.Image.black(w, h): one band of uchar zeros. Both arguments must be
\* at least 1, otherwise the call raises pyvips.Error.
BlackOk(w, h) == w >= 1 /\ h >= 1

Black(w, h) ==
    [w |-> w, h |-> h, bands |-> 1, format |-> "uchar",
     interpretation |-> "b-w",
     px |-> [p \in Coords(w, h) |-> << 0 >>]]

----------------------------------------------------------------------------
\* Image.resize(scale, kernel="linear"): libvips enlarges with an affine
\* transform, the bilinear interpolator, the pixel-centre convention and the
\* source extended by copying its edge samples. uchar samples are
\* interpolated in fixed point.
VIPS_TRANSFORM_SHIFT == 6
VIPS_INTERPOLATE_SHIFT == 12
TransformScale == 2 ^ VIPS_TRANSFORM_SHIFT
InterpolateScale == 2 ^ VIPS_INTERPOLATE_SHIFT

\* The source coordinate of output coordinate X, times 2 * scale:
\* (X + 0.5) / scale - 0.5.
SrcNum(X, scale) == 2 * X + 1 - scale

SrcFloor(X, scale) == SrcNum(X, scale) \div (2 * scale)

\* The fractional part, rounded to the nearest 1 / TransformScale.
SrcIndex(X, scale) ==
    LET six == ((SrcNum(X, scale) % (2 * scale)) * 2 * TransformScale)
                  \div (2 * scale)
    IN  (six + 1) \div 2

\* A faulty variant of SampleAt: the source extended with zeros instead of edge copies.
SampleAtBlack(img, x, y, b) ==
    IF x < 0 \/ x >= img.w \/ y < 0 \/ y >= img.h
    THEN 0
    ELSE img.px[<<x, y>>][b]

\* A source sample, with coordinates outside the plane clamped to the edge.
SampleAt(img, x, y, b) ==
    LET cx == IF x < 0 THEN 0 ELSE IF x > img.w - 1 THEN img.w - 1 ELSE x
        cy == IF y < 0 THEN 0 ELSE IF y > img.h - 1 THEN img.h - 1 ELSE y
    IN  img.px[<<cx, cy>>][b]

\* One interpolated uchar sample.
Bilinear(img, scale, X, Yo, b) ==
    LET ix == SrcFloor(X, scale)
        iy == SrcFloor(Yo, scale)
        fx == (SrcIndex(X, scale) * InterpolateScale) \div TransformScale
        fy == (SrcIndex(Yo, scale) * InterpolateScale) \div TransformScale
        yd == InterpolateScale - fy
        c4 == (fy * fx) \div InterpolateScale
        c2 == (yd * fx) \div InterpolateScale
        c3 == fy - c4
        c1 == yd - c2
    IN  (c1 * SampleAt(img, ix, iy, b) + c2 * SampleAt(img, ix + 1, iy, b)
         + c3 * SampleAt(img, ix, iy + 1, b)
         + c4 * SampleAt(img, ix + 1, iy + 1, b)
         + InterpolateScale \div 2) \div InterpolateScale

\* A faulty variant of Resize: nearest-pixel replication.
ResizeNearest(img, scale) ==
    [img EXCEPT !.w = img.w * scale, !.h = img.h * scale,
                !.px = [p \in Coords(img.w * scale, img.h * scale) |->
                          img.px[<<p[1] \div scale, p[2] \div scale>>]]]

\* A faulty variant of Resize: the scale applied to the width only.
ResizeWidthOnly(img, scale) ==
    [img EXCEPT !.w = img.w * scale,
                !.px = [p \in Coords(img.w * scale, img.h) |->
                          [b \in 1 .. img.bands |->
                             Bilinear(img, scale, p[1], p[2] * scale, b)]]]

Resize(img, scale) ==
    [img EXCEPT !.w = img.w * scale, !.h = img.h * scale,
                !.px = [p \in Coords(img.w * scale, img.h * scale) |->
                          [b \in 1 .. img.bands |->
                             Bilinear(img, scale, p[1], p[2], b)]]]

----------------------------------------------------------------------------
Max(a, b) == IF a >= b THEN a ELSE b

\* The band values of img at p, zeros where p lies outside img.
BandsAt(img, p) ==
    IF p[1] < img.w /\ p[2] < img.h
    THEN img.px[p]
    ELSE [b \in 1 .. img.bands |-> 0]

\* a.bandjoin([b, c]): the bands of a, then of b, then of c. libvips never
\* fails on images of different sizes: it extends the smaller ones with zero
\* pixels along the bottom and the right.
Bandjoin3(a, b, c) ==
    LET w == Max(a.w, Max(b.w, c.w))
        h == Max(a.h, Max(b.h, c.h))
    IN  [w |-> w, h |-> h, bands |-> a.bands + b.bands + c.bands,
         format |-> a.format, interpretation |-> a.interpretation,
         px |-> [p \in Coords(w, h) |->
                   BandsAt(a, p) \o BandsAt(b, p) \o BandsAt(c, p)]]

\* A faulty variant of Subtract: the result kept in the uchar range, in whole units.
SubtractUchar(img, list) ==
    [img EXCEPT !.format = "float",
                !.px = [p \in Coords(img.w, img.h) |->
                          [b \in 1 .. img.bands |->
                             FloatScale * Max(0, img.px[p][b] - list[b])]]]

\* image - list: pyvips maps it to linear(1, -list), whose result is float;
\* nothing is clipped.
Subtract(img, list) ==
    [img EXCEPT !.format = "float",
                !.px = [p \in Coords(img.w, img.h) |->
                          [b \in 1 .. img.bands |->
                             FloatScale * (img.px[p][b] - list[b])]]]

\* m * v / FloatScale for a matrix entry m and a float sample v; exact for
\* whole-number samples, which is what Subtract yields from uchar planes.
MulSample(m, v) ==
    m * (v \div FloatScale) + (m * (v % FloatScale)) \div FloatScale

RECURSIVE Dot(_, _, _)
Dot(row, v, n) ==
    IF n = 0 THEN 0 ELSE Dot(row, v, n - 1) + MulSample(row[n], v[n])

\* A faulty variant of Recomb: the matrix applied transposed.
RecombTransposed(img, m) ==
    [img EXCEPT !.bands = Len(m),
                !.px = [p \in Coords(img.w, img.h) |->
                          [i \in 1 .. Len(m) |->
                             Dot([j \in 1 .. img.bands |-> m[j][i]],
                                 img.px[p], img.bands)]]]

\* image.recomb(m): every pixel multiplied by the matrix.
Recomb(img, m) ==
    [img EXCEPT !.bands = Len(m),
                !.px = [p \in Coords(img.w, img.h) |->
                          [i \in 1 .. Len(m) |->
                             Dot(m[i], img.px[p], img.bands)]]]

\* image.copy(interpretation=...): only the tag changes.
CopyInterpretation(img, tag) == [img EXCEPT !.interpretation = tag]

\* image.write_to_binary(): the samples as one flat row-major buffer.
RECURSIVE Flatten(_, _)
Flatten(img, n) ==
    IF n = 0 THEN << >>
    ELSE Flatten(img, n - 1) \o img.px[<<(n - 1) % img.w, (n - 1) \div img.w>>]

WriteToBinary(img) ==
    [format |-> "bytes", data |-> Flatten(img, img.w * img.h)]

\* image.copy_memory(): the same image, rendered into memory.
CopyMemory(img) == img

----------------------------------------------------------------------------
\* The two bench(...) statements at the end of the script.
BenchCalls == << [msg |-> "linear", fn |-> "try2"],
                 [msg |-> "plus write_to_binary", fn |-> "try2"] >>

NoFrame == [fn |-> "", Y |-> NoImage, Cb |-> NoImage, Cr |-> NoImage,
            YCbCr |-> NoImage, Rgb |-> NoImage]

\* A faulty variant of AssignLocal: the assignment also overwrites the module-level name.
AssignGlobal(g, f, name, val) ==
    [g |-> [g EXCEPT ![name] = val], f |-> [f EXCEPT ![name] = val]]

\* An assignment to a name inside try2/try3 rebinds the local name only.
AssignLocal(g, f, name, val) ==
    [g |-> g, f |-> [f EXCEPT ![name] = val]]

Globals == [Y |-> Y, Cb |-> Cb, Cr |-> Cr]

ArgValues == (0 - 1) .. MaxDim

Init ==
    /\ argc \in {2, 3}
    /\ argv \in [1 .. (argc - 1) -> ArgValues]
    /\ pc = "start"
    /\ width = 0
    /\ height = 0
    /\ Y = NoImage
    /\ Cb = NoImage
    /\ Cr = NoImage
    /\ callIdx = 1
    /\ frame = NoFrame
    /\ calls = << >>
    /\ results = << >>
    /\ output = << >>
    /\ err = ""

\* Lines 7-9.
Usage ==
    /\ pc = "start"
    /\ argc # 3
    /\ output' = Append(output, "usage")
    /\ pc' = "exit1"
    /\ UNCHANGED <<argc, argv, width, height, Y, Cb, Cr, callIdx, frame,
                   calls, results, err>>

\* Lines 11-12.
ParseArgs ==
    /\ pc = "start"
    /\ argc = 3
    /\ width' = argv[1]
    /\ height' = argv[2]
    /\ pc' = "mkY"
    /\ UNCHANGED <<argc, argv, Y, Cb, Cr, callIdx, frame, calls, results,
                   output, err>>

\* Line 21.
MakeY ==
    /\ pc = "mkY"
    /\ IF BlackOk(width, height)
       THEN /\ Y' = CopyMemory(Black(width, height))
            /\ pc' = "mkCb"
            /\ err' = err
       ELSE /\ Y' = Y
            /\ pc' = "error"
            /\ err' = "pyvips.Error"
    /\ UNCHANGED <<argc, argv, width, height, Cb, Cr, callIdx, frame, calls,
                   results, output>>

\* Line 22.
MakeCb ==
    /\ pc = "mkCb"
    /\ IF BlackOk(Shr(width, shift), Shr(height, shift))
       THEN /\ Cb' = CopyMemory(Black(Shr(width, shift), Shr(height, shift)))
            /\ pc' = "mkCr"
            /\ err' = err
       ELSE /\ Cb' = Cb
            /\ pc' = "error"
            /\ err' = "pyvips.Error"
    /\ UNCHANGED <<argc, argv, width, height, Y, Cr, callIdx, frame, calls,
                   results, output>>

\* Line 23.
MakeCr ==
    /\ pc = "mkCr"
    /\ IF BlackOk(Shr(width, shift), Shr(height, shift))
       THEN /\ Cr' = CopyMemory(Black(Shr(width, shift), Shr(height, shift)))
            /\ pc' = "bench"
            /\ err' = err
       ELSE /\ Cr' = Cr
            /\ pc' = "error"
            /\ err' = "pyvips.Error"
    /\ UNCHANGED <<argc, argv, width, height, Y, Cb, callIdx, frame, calls,
                   results, output>>

\* Lines 41-42: bench calls fn(Y, Cb, Cr) with the module-level planes.
BenchCall ==
    /\ pc = "bench"
    /\ callIdx <= Len(BenchCalls)
    /\ frame' = [fn |-> BenchCalls[callIdx].fn, Y |-> Y, Cb |-> Cb,
                 Cr |-> Cr, YCbCr |-> NoImage, Rgb |-> NoImage]
    /\ calls' = Append(calls, BenchCalls[callIdx].fn)
    /\ pc' = "resizeCb"
    /\ UNCHANGED <<argc, argv, width, height, Y, Cb, Cr, callIdx, results,
                   output, err>>

\* Lines 28 and 34.
ResizeCb ==
    /\ pc = "resizeCb"
    /\ LET r == AssignLocal(Globals, frame, "Cb", Resize(frame.Cb, subsample))
       IN  /\ frame' = r.f
           /\ Y' = r.g.Y
           /\ Cb' = r.g.Cb
           /\ Cr' = r.g.Cr
    /\ pc' = "resizeCr"
    /\ UNCHANGED <<argc, argv, width, height, callIdx, calls, results,
                   output, err>>

\* Lines 29 and 35.
ResizeCr ==
    /\ pc = "resizeCr"
    /\ LET r == AssignLocal(Globals, frame, "Cr", Resize(frame.Cr, subsample))
       IN  /\ frame' = r.f
           /\ Y' = r.g.Y
           /\ Cb' = r.g.Cb
           /\ Cr' = r.g.Cr
    /\ pc' = "bandjoin"
    /\ UNCHANGED <<argc, argv, width, height, callIdx, calls, results,
                   output, err>>

\* Lines 30 and 36, Y.bandjoin([Cb, Cr]).
BandjoinStep ==
    /\ pc = "bandjoin"
    /\ frame' = [frame EXCEPT !.YCbCr = Bandjoin3(frame.Y, frame.Cb, frame.Cr)]
    /\ pc' = "subtract"
    /\ UNCHANGED <<argc, argv, width, height, Y, Cb, Cr, callIdx, calls,
                   results, output, err>>

\* Lines 30 and 36, ... - [16, 128, 128].
SubtractStep ==
    /\ pc = "subtract"
    /\ frame' = [frame EXCEPT !.YCbCr = Subtract(frame.YCbCr, offsets)]
    /\ pc' = "recomb"
    /\ UNCHANGED <<argc, argv, width, height, Y, Cb, Cr, callIdx, calls,
                   results, output, err>>

\* Lines 31 and 37.
RecombStep ==
    /\ pc = "recomb"
    /\ frame' = [frame EXCEPT !.Rgb =
                   CopyInterpretation(Recomb(frame.YCbCr, ycc2rgb), "srgb")]
    /\ pc' = "return"
    /\ UNCHANGED <<argc, argv, width, height, Y, Cb, Cr, callIdx, calls,
                   results, output, err>>

\* Lines 31 or 38 (the return), then lines 42-44 of bench. try3 returns a
\* bytes object, which has no copy_memory method.
BenchReturn ==
    /\ pc = "return"
    /\ IF frame.fn = "try3"
       THEN /\ pc' = "error"
            /\ err' = "AttributeError"
            /\ UNCHANGED <<results, output, callIdx>>
       ELSE /\ results' = Append(results, CopyMemory(frame.Rgb))
            /\ output' = Append(output, BenchCalls[callIdx].msg)
            /\ callIdx' = callIdx + 1
            /\ pc' = IF callIdx = Len(BenchCalls) THEN "done" ELSE "bench"
            /\ err' = err
    /\ frame' = NoFrame
    /\ UNCHANGED <<argc, argv, width, height, Y, Cb, Cr, calls>>

Next ==
    \/ Usage
    \/ ParseArgs
    \/ MakeY
    \/ MakeCb
    \/ MakeCr
    \/ BenchCall
    \/ ResizeCb
    \/ ResizeCr
    \/ BandjoinStep
    \/ SubtractStep
    \/ RecombStep
    \/ BenchReturn

Spec == Init /\ [][Next]_vars

----------------------------------------------------------------------------
\* The conversion on its own: one call of try2 (the last bench statement)
\* on planes with arbitrary samples.
\* One chroma plane takes up to two sample levels in any arrangement, the
\* other chroma plane and the luma plane are solid.
Levels == {0, 128, 255}
SolidChromaLevels == {128, 255}
LumaLevels == {16, 116}

Plane(w, h, f) ==
    [w |-> w, h |-> h, bands |-> 1, format |-> "uchar",
     interpretation |-> "b-w",
     px |-> [p \in Coords(w, h) |-> << f[p] >>]]

Solid(w, h, v) == Plane(w, h, [p \in Coords(w, h) |-> v])

TwoLevelPlanes(w, h) ==
    { Plane(w, h, f) :
        f \in UNION { [Coords(w, h) -> {a, b}] : a \in Levels, b \in Levels } }

ConvInit ==
    /\ \E cw \in 1 .. MaxChroma, ch \in 1 .. MaxChroma :
         \E P \in TwoLevelPlanes(cw, ch), s \in SolidChromaLevels,
            y \in LumaLevels, varied \in {"Cb", "Cr"} :
              /\ width = cw * subsample
              /\ height = ch * subsample
              /\ Y = Solid(cw * subsample, ch * subsample, y)
              /\ Cb = IF varied = "Cb" THEN P ELSE Solid(cw, ch, s)
              /\ Cr = IF varied = "Cr" THEN P ELSE Solid(cw, ch, s)
    /\ argc = 3
    /\ argv = << width, height >>
    /\ pc = "bench"
    /\ callIdx = Len(BenchCalls)
    /\ frame = NoFrame
    /\ calls = << >>
    /\ results = << >>
    /\ output = << >>
    /\ err = ""

ConvNext ==
    \/ BenchCall
    \/ ResizeCb
    \/ ResizeCr
    \/ BandjoinStep
    \/ SubtractStep
    \/ RecombStep
    \/ BenchReturn

SpecConv == ConvInit /\ [][ConvNext]_vars

----------------------------------------------------------------------------
\* Helpers of the properties: bilinear interpolation as the specification
\* states it. The source coordinate of output coordinate X is
\* (X + 0.5) / F - 0.5 = CoordNum(X, F) / (2 F); the two nearest samples on
\* an axis are at its floor and one above, weighted by the distance to the
\* other one, and a coordinate outside the plane is moved to the edge.
CoordNum(X, F) == 2 * X + 1 - F
Lower(X, F) == CoordNum(X, F) \div (2 * F)
UpperWeight(X, F) == CoordNum(X, F) - Lower(X, F) * 2 * F
LowerWeight(X, F) == 2 * F - UpperWeight(X, F)
Edge(i, n) == IF i < 0 THEN 0 ELSE IF i >= n THEN n - 1 ELSE i
Src(P, i, j) == P.px[<<Edge(i, P.w), Edge(j, P.h)>>][1]

\* (2 F)^2 times the interpolated value at output pixel p.
BilinearNum(P, F, p) ==
    LET i == Lower(p[1], F)
        j == Lower(p[2], F)
    IN    LowerWeight(p[1], F) * LowerWeight(p[2], F) * Src(P, i, j)
        + UpperWeight(p[1], F) * LowerWeight(p[2], F) * Src(P, i + 1, j)
        + LowerWeight(p[1], F) * UpperWeight(p[2], F) * Src(P, i, j + 1)
        + UpperWeight(p[1], F) * UpperWeight(p[2], F) * Src(P, i + 1, j + 1)

Abs(n) == IF n < 0 THEN 0 - n ELSE n

\* out holds, at every pixel, the integer nearest to the interpolated value.
IsBilinearOf(out, P, F) ==
    /\ out.w = P.w * F
    /\ out.h = P.h * F
    /\ \A p \in Coords(P.w * F, P.h * F) :
         2 * Abs(out.px[p][1] * 4 * F * F - BilinearNum(P, F, p)) <= 4 * F * F

MinSample(P) ==
    CHOOSE v \in {P.px[p][1] : p \in Coords(P.w, P.h)} :
        \A q \in Coords(P.w, P.h) : v <= P.px[q][1]
MaxSample(P) ==
    CHOOSE v \in {P.px[p][1] : p \in Coords(P.w, P.h)} :
        \A q \in Coords(P.w, P.h) : v >= P.px[q][1]

EdgeClamped(out, P) ==
    /\ out.px[<<0, 0>>][1] = P.px[<<0, 0>>][1]
    /\ out.px[<<out.w - 1, 0>>][1] = P.px[<<P.w - 1, 0>>][1]
    /\ out.px[<<0, out.h - 1>>][1] = P.px[<<0, P.h - 1>>][1]
    /\ out.px[<<out.w - 1, out.h - 1>>][1] = P.px[<<P.w - 1, P.h - 1>>][1]
    /\ \A p \in Coords(out.w, out.h) :
         /\ out.px[p][1] >= MinSample(P)
         /\ out.px[p][1] <= MaxSample(P)

\* C6: source coordinates outside the plane are clamped to the edge sample:
\* each corner of an upsampled plane equals the source sample at that corner
\* and no upsampled sample lies outside the range of the source samples.
C6_EdgeClamp ==
    pc = "bandjoin" =>
        /\ EdgeClamped(frame.Cb, Cb)
        /\ EdgeClamped(frame.Cr, Cr)

\* A plane whose corner sample differs from its neighbour and is not zero:
\* wrapping or zero padding would change the upsampled corner.
C6_Witness ==
    /\ pc = "bandjoin"
    /\ Cb.w >= 2
    /\ Cb.px[<<0, 0>>][1] # Cb.px[<<1, 0>>][1]
    /\ Cb.px[<<0, 0>>][1] = MaxSample(Cb)
    /\ frame.Cb.px[<<0, 0>>][1] = Cb.px[<<0, 0>>][1]

\* The three samples handed to the transform at pixel p.
BandsIn(p) == << frame.Y.px[p][1], frame.Cb.px[p][1], frame.Cr.px[p][1] >>

\* sum over j of matrix[i][j] * (band[j] - offsets[j]), in 1/FloatScale.
Transformed(i, band) ==
      ycc2rgb[i][1] * (band[1] - offsets[1])
    + ycc2rgb[i][2] * (band[2] - offsets[2])
    + ycc2rgb[i][3] * (band[3] - offsets[3])

\* C4: every output sample is sum_j matrix[i][j] * (band[j] - offsets[j])
\* with bands [Y, Cb, Cr] and offsets [16, 128, 128], neither clamped nor
\* rescaled; Y=16, Cb=128, Cr=255 gives R = 178.05, G = -90.70 (within 0.01)
\* and B = 0.
C4_Transform ==
    pc = "return" =>
        /\ frame.Rgb.bands = 3
        /\ frame.Rgb.w = frame.Y.w
        /\ frame.Rgb.h = frame.Y.h
        /\ \A p \in Coords(frame.Y.w, frame.Y.h) :
             /\ \A i \in 1 .. 3 :
                  frame.Rgb.px[p][i] = Transformed(i, BandsIn(p))
             /\ BandsIn(p) = << 16, 128, 255 >> =>
                  /\ Abs(frame.Rgb.px[p][1] - 178050000) <= 10000
                  /\ Abs(frame.Rgb.px[p][2] + 90700000) <= 10000
                  /\ frame.Rgb.px[p][2] < 0
                  /\ frame.Rgb.px[p][3] = 0

\* The known point is transformed and its G sample is negative.
C4_Witness ==
    /\ pc = "return"
    /\ \E p \in Coords(frame.Y.w, frame.Y.h) :
         /\ BandsIn(p) = << 16, 128, 255 >>
         /\ frame.Rgb.px[p] = << 178054000, 0 - 90695272, 0 >>

\* C5: with chroma at its neutral value 128, R = G = B = Y - 16.
C5_GreyAxis ==
    pc = "return" =>
        \A p \in Coords(frame.Y.w, frame.Y.h) :
            (frame.Cb.px[p][1] = 128 /\ frame.Cr.px[p][1] = 128) =>
                \A i \in 1 .. 3 :
                    frame.Rgb.px[p][i] = (frame.Y.px[p][1] - 16) * FloatScale

\* A solid image with Y = 116, Cb = Cr = 128 gives 100 in every band of
\* every pixel.
C5_Witness ==
    /\ pc = "return"
    /\ Cb = Solid(Cb.w, Cb.h, 128)
    /\ Cr = Solid(Cr.w, Cr.h, 128)
    /\ Y = Solid(Y.w, Y.h, 116)
    /\ \A p \in Coords(frame.Rgb.w, frame.Rgb.h) :
         frame.Rgb.px[p] = << 100 * FloatScale, 100 * FloatScale,
                              100 * FloatScale >>

----------------------------------------------------------------------------
\* Properties of the whole script.

Mismatched(a, b) == a.w # b.w \/ a.h # b.h

\* C2: when Y and an upsampled chroma plane differ in width or height the
\* transform fails (DimensionMismatch) and returns no image: the band join
\* never completes on planes of different sizes.
C2_DimensionMismatch ==
    pc \in {"subtract", "recomb", "return"} =>
        /\ ~Mismatched(frame.Y, frame.Cb)
        /\ ~Mismatched(frame.Y, frame.Cr)

\* C3: an upsampled plane has exactly factor times the width and the height
\* of its source: (WIDTH >> 1) * 2 by (HEIGHT >> 1) * 2 for Cb and Cr.
C3_Dimensions ==
    pc = "bandjoin" =>
        /\ frame.Cb.w = Cb.w * subsample
        /\ frame.Cb.h = Cb.h * subsample
        /\ frame.Cr.w = Cr.w * subsample
        /\ frame.Cr.h = Cr.h * subsample
        /\ frame.Cb.w = (width \div 2) * 2
        /\ frame.Cb.h = (height \div 2) * 2
        /\ frame.Cr.w = (width \div 2) * 2
        /\ frame.Cr.h = (height \div 2) * 2
        /\ DOMAIN frame.Cb.px = Coords(frame.Cb.w, frame.Cb.h)
        /\ DOMAIN frame.Cr.px = Coords(frame.Cr.w, frame.Cr.h)

\* Planes of different width and height, upsampled.
C3_Witness ==
    /\ pc = "bandjoin"
    /\ Cb.w = 2
    /\ Cb.h = 1
    /\ frame.Cb.w = 4
    /\ frame.Cb.h = 2
    /\ frame.Cr.w = 4
    /\ frame.Cr.h = 2

InvalidArgs ==
    \/ width < 1
    \/ height < 1
    \/ Shr(width, shift) < 1
    \/ Shr(height, shift) < 1

\* C7: a non-positive plane dimension (WIDTH or HEIGHT <= 0, or equal to 1,
\* where the chroma dimension is 0) is reported as an error by the plane
\* construction that meets it, before any conversion stage has run and with
\* no result: nothing was called, computed or printed.
C7_InvalidDimension ==
    (argc = 3 /\ pc # "start" /\ InvalidArgs) =>
        /\ pc \in {"mkY", "mkCb", "error"}
        /\ pc = "error" => err = "pyvips.Error"
        /\ (width < 1 \/ height < 1) => (pc # "mkCb" /\ Y = NoImage)
        /\ Cb = NoImage
        /\ Cr = NoImage
        /\ frame = NoFrame
        /\ calls = << >>
        /\ results = << >>
        /\ output = << >>

\* WIDTH = 1: the luma plane is built, the chroma plane of width 0 is refused.
C7_Witness ==
    /\ pc = "error"
    /\ err = "pyvips.Error"
    /\ width = 1
    /\ height >= 2
    /\ Y # NoImage
    /\ Cb = NoImage
    /\ calls = << >>

\* C8: the second bench call computes the same image as the first, the
\* module-level planes are what lines 21-23 created at every point of both
\* calls, and no local state survives a call.
C8_Determinism ==
    /\ pc \in {"bench", "resizeCb", "resizeCr", "bandjoin", "subtract",
               "recomb", "return", "done"} =>
         /\ Y = Black(width, height)
         /\ Cb = Black(Shr(width, shift), Shr(height, shift))
         /\ Cr = Black(Shr(width, shift), Shr(height, shift))
    /\ pc \in {"bench", "done"} => frame = NoFrame
    /\ pc = "done" =>
         /\ Len(results) = 2
         /\ results[1] = results[2]

\* Both calls have finished and returned an image.
C8_Witness ==
    /\ pc = "done"
    /\ calls = << "try2", "try2" >>
    /\ Len(results) = 2
    /\ results[1].w >= 4
    /\ results[1].bands = 3

EqualPlanes ==
    /\ Cb.w = Shr(width, shift) /\ Cb.h = Shr(height, shift)
    /\ Cr.w = Shr(width, shift) /\ Cr.h = Shr(height, shift)
    /\ frame.Cb.w = Cb.w * (2 ^ shift) /\ frame.Cb.h = Cb.h * (2 ^ shift)
    /\ frame.Cr.w = Cr.w * (2 ^ shift) /\ frame.Cr.h = Cr.h * (2 ^ shift)
    /\ ~Mismatched(frame.Y, frame.Cb)
    /\ ~Mismatched(frame.Y, frame.Cr)
    /\ frame.Y.w = width /\ frame.Y.h = height

\* C9: for every positive WIDTH and HEIGHT the chroma planes are
\* created at (WIDTH >> shift, HEIGHT >> shift), upsampled by 1 << shift, and
\* at the band join Y, Cb and Cr have identical width and height.
C9_AllPositive ==
    (pc = "bandjoin" /\ width >= 1 /\ height >= 1) => EqualPlanes

\* C10: a finished run has benchmarked try2 and then try3, each once, and
\* reported them as "linear" and "plus write_to_binary".
C10_TwoPaths ==
    pc = "done" =>
        /\ calls = << "try2", "try3" >>
        /\ output = << "linear", "plus write_to_binary" >>

====
